---- MODULE Spec2Model ----
(***************************************************************************)
(* Venue auto-seeding pipeline of the Tokyo 2025 travel companion:         *)
(* seedDatabase / VenueSeeder (scripts/init-seed) and the POST /api/seed   *)
(* trigger, over the D1 table `venues`.                                    *)
(*                                                                         *)
(* Strings are TLA+ strings (Len, \o and SubSeq act on them as on          *)
(* JavaScript strings).  A JavaScript value that may be undefined or null  *)
(* is a sequence of length at most one: <<>> is undefined/null, <<v>> is   *)
(* the value v.  Ratings are in tenths (46 is 4.6).  The table `venues` is  *)
(* a bag of rows without their AUTOINCREMENT id: the id is a surrogate key *)
(* that no statement of the pipeline reads, and rows equal in every other  *)
(* column are kept apart by their multiplicity.                            *)
(***************************************************************************)
EXTENDS Integers, Sequences, FiniteSets, Bags, TLC

None == <<>>
Some(v) == <<v>>
IsSome(o) == o # <<>>
Get(o) == o[1]

Min(a, b) == IF a <= b THEN a ELSE b

(* ------------------------------ bounds -------------------------------- *)

\* Query phrases taken from the head of each area's catalog.
CatalogLen == 2
\* Longest tag sequence given to mapCategory when it is called on its own.
MaxTags == 3

(* --------------------------- program constants ------------------------ *)

\* places.slice(0, 5)
TopN == 5
\* description.substring(0, 500)
DescriptionLimit == 500

Runners == {"r1", "r2"}
\* Runs executed one after another are all the same to the store: one
\* runner stands for them.
SequentialRunners == {"r1"}

GinzaCatalog ==
    << "luxury shopping Ginza Tokyo", "department store Ginza",
       "designer boutique Ginza", "jewelry store Ginza",
       "high-end restaurant Ginza", "sushi restaurant Ginza",
       "Ginza shopping mall", "Ginza art gallery", "Ginza Six",
       "Mitsukoshi Ginza", "Ginza Wako", "Dover Street Market Ginza" >>

OsakaCatalog ==
    << "shopping Dotonbori Osaka", "restaurant Namba Osaka",
       "Shinsaibashi shopping", "Umeda department store",
       "takoyaki Dotonbori", "okonomiyaki Osaka", "Osaka Castle",
       "Kuromon Market Osaka", "nightlife Namba", "Osaka street food",
       "Amerikamura shopping", "Tennoji shopping" >>

\* seedGinza's and seedOsaka's `queries`, cut to the first CatalogLen phrases.
Queries(area) ==
    IF area = "ginza" THEN SubSeq(GinzaCatalog, 1, Min(CatalogLen, Len(GinzaCatalog)))
    ELSE SubSeq(OsakaCatalog, 1, Min(CatalogLen, Len(OsakaCatalog)))

(* ------------------------------ normalizer ---------------------------- *)

CategoryKeys ==
    << "shopping_mall", "department_store", "clothing_store", "jewelry_store",
       "restaurant", "cafe", "bar", "night_club", "tourist_attraction",
       "museum", "art_gallery", "park", "spa", "store" >>

CategoryValues ==
    << "Shopping Mall", "Department Store", "Fashion Boutique", "Jewelry & Luxury",
       "Restaurant", "Cafe", "Bar", "Nightlife", "Tourist Attraction",
       "Museum", "Art Gallery", "Park", "Spa & Wellness", "Shopping" >>

\* categoryMap[type], undefined when the type is no key of the map
categoryMap(type) ==
    IF \E k \in 1..Len(CategoryKeys) : CategoryKeys[k] = type
    THEN Some(CategoryValues[CHOOSE k \in 1..Len(CategoryKeys) : CategoryKeys[k] = type])
    ELSE None

RECURSIVE mapCategoryFrom(_, _)
mapCategoryFrom(types, i) ==
    IF i > Len(types) THEN "Venue"
    ELSE IF IsSome(categoryMap(types[i])) THEN Get(categoryMap(types[i]))
    ELSE mapCategoryFrom(types, i + 1)

RECURSIVE TableOrderFrom(_, _)
TableOrderFrom(types, k) ==
    IF k > Len(CategoryKeys) THEN "Venue"
    ELSE IF \E i \in 1..Len(types) : types[i] = CategoryKeys[k] THEN CategoryValues[k]
    ELSE TableOrderFrom(types, k + 1)

\* Faulty variant of mapCategory: the first entry of the table that is among
\* the tags wins.
mapCategory_TableOrder(types) == TableOrderFrom(types, 1)

\* for (const type of types) { if (categoryMap[type]) return categoryMap[type] } return 'Venue'
mapCategory(types) == mapCategoryFrom(types, 1)

\* String.prototype.includes
Includes(s, d) ==
    \E i \in 1..(Len(s) - Len(d) + 1) : SubSeq(s, i, i + Len(d) - 1) = d

districts ==
    << "Ginza", "Shibuya", "Shinjuku", "Roppongi", "Harajuku",
       "Asakusa", "Akihabara", "Ikebukuro", "Ueno", "Odaiba",
       "Chuo", "Koto", "Minato", "Chiyoda" >>

osakaDistricts ==
    << "Namba", "Umeda", "Dotonbori", "Shinsaibashi", "Tennoji",
       "Osaka", "Kita", "Chuo", "Minami" >>

RECURSIVE FirstIncluded(_, _, _, _)
\* the first name of `list`, from position i on, that fullAddress includes;
\* `otherwise` when there is none
FirstIncluded(list, fullAddress, i, otherwise) ==
    IF i > Len(list) THEN otherwise
    ELSE IF Includes(fullAddress, list[i]) THEN list[i]
    ELSE FirstIncluded(list, fullAddress, i + 1, otherwise)

\* Faulty variant of FullAddress: vicinity || address.
FullAddress_VicinityFirst(vicinity, address) ==
    IF IsSome(vicinity) /\ Get(vicinity) # "" THEN vicinity ELSE address

\* address || vicinity: a missing or empty address gives the vicinity
FullAddress(vicinity, address) ==
    IF IsSome(address) /\ Get(address) # "" THEN address ELSE vicinity

\* fullAddress.includes(...) on undefined is a TypeError
extractDistrictThrows(vicinity, address) == ~IsSome(FullAddress(vicinity, address))

\* Faulty variant of extractDistrict: the Osaka names are tried first.
extractDistrict_OsakaFirst(vicinity, address) ==
    LET fullAddress == Get(FullAddress(vicinity, address))
    IN  FirstIncluded(osakaDistricts, fullAddress, 1,
            FirstIncluded(districts, fullAddress, 1, "Central"))

extractDistrict(vicinity, address) ==
    LET fullAddress == Get(FullAddress(vicinity, address))
    IN  FirstIncluded(districts, fullAddress, 1,
            FirstIncluded(osakaDistricts, fullAddress, 1, "Central"))

(* ------------------------- upstream (Google Places) ------------------- *)

\* GooglePlaceResult values the text search may return.
MitsukoshiGinza ==
    [place_id |-> "p1", name |-> "Mitsukoshi Ginza", types |-> <<"department_store">>,
     vicinity |-> Some("Chuo, Ginza, Tokyo"), rating |-> None]
CafeX ==
    [place_id |-> "p2", name |-> "Cafe X", types |-> <<"unknown_tag", "cafe", "restaurant">>,
     vicinity |-> Some("Shibuya"), rating |-> Some(45)]
GinzaSix ==
    [place_id |-> "p3", name |-> "Ginza Six", types |-> <<"shopping_mall", "store">>,
     vicinity |-> None, rating |-> Some(46)]

\* Places as the text search returns them, without `vicinity`.
GinzaWako ==
    [place_id |-> "p5", name |-> "Ginza Wako", types |-> <<"jewelry_store", "store">>,
     vicinity |-> None, rating |-> Some(44)]
DoverStreetMarket ==
    [place_id |-> "p6", name |-> "Dover Street Market Ginza", types |-> <<"clothing_store">>,
     vicinity |-> None, rating |-> Some(43)]
Itoya ==
    [place_id |-> "p8", name |-> "Itoya", types |-> <<"store">>,
     vicinity |-> Some("Ginza"), rating |-> Some(45)]

\* The `result` of a details response with status OK, per place.
DetailsOf(placeId) ==
    CASE placeId = "p1" -> [formatted_address |-> Some("4-6-16 Ginza, Chuo City, Tokyo"),
                            overview |-> None]
      [] placeId = "p2" -> [formatted_address |-> Some("1-2 Namba, Chuo Ward, Osaka"),
                            overview |-> Some("Cozy cafe")]
      [] OTHER          -> [formatted_address |-> Some("6-10-1 Ginza, Chuo City, Tokyo"),
                            overview |-> Some("")]

FoundA == [raised |-> FALSE, status |-> "OK", results |-> <<MitsukoshiGinza, GinzaSix>>]
FoundB == [raised |-> FALSE, status |-> "OK", results |-> <<CafeX, MitsukoshiGinza>>]
FoundNone == [raised |-> FALSE, status |-> "ZERO_RESULTS", results |-> <<>>]
Denied == [raised |-> FALSE, status |-> "OVER_QUERY_LIMIT", results |-> <<>>]
\* A result list longer than the pipeline takes candidates from.
FoundMany ==
    [raised |-> FALSE, status |-> "OK",
     results |-> <<MitsukoshiGinza, GinzaWako, DoverStreetMarket, GinzaSix, CafeX, Itoya>>]
Unreachable == [raised |-> TRUE, status |-> "", results |-> <<>>]

\* What one text-search call may come back with: a body {status, results},
\* or fetch / response.json() rejects (raised).
SearchResponses == {FoundA, FoundB, FoundNone, Denied, Unreachable}

DetailModes == {"OK", "NOT_FOUND", "raised"}

DetailResponse(placeId, mode) ==
    CASE mode = "OK" -> [raised |-> FALSE, status |-> "OK", result |-> Some(DetailsOf(placeId))]
      [] mode = "NOT_FOUND" -> [raised |-> FALSE, status |-> "NOT_FOUND", result |-> None]
      [] OTHER -> [raised |-> TRUE, status |-> "", result |-> None]

\* What one details call may come back with.
DetailResponses(placeId) == {DetailResponse(placeId, mode) : mode \in DetailModes}

\* An upstream whose answers are a function of the request, so that a run
\* can be repeated against the same upstream data: the text search answers
\* the i-th phrase of an area with search[i] (cyclically), the details
\* endpoint answers every place in mode `details`.
Scripts ==
    { [search |-> <<FoundA, FoundB>>, details |-> "OK"],
      [search |-> <<FoundB, FoundA>>, details |-> "NOT_FOUND"],
      [search |-> <<Denied, FoundA, FoundNone>>, details |-> "OK"],
      [search |-> <<FoundB, Unreachable, FoundA>>, details |-> "raised"],
      [search |-> <<FoundNone, FoundB>>, details |-> "OK"],
      [search |-> <<FoundMany, FoundNone>>, details |-> "NOT_FOUND"] }

\* An upstream free to answer each call with anything it may answer.
Unscripted == [search |-> <<>>, details |-> "any"]

ScriptedSearch(script, i) == script.search[((i - 1) % Len(script.search)) + 1]

SearchAnswers(script, i) ==
    IF script = Unscripted THEN SearchResponses ELSE {ScriptedSearch(script, i)}

DetailAnswers(script, placeId) ==
    IF script = Unscripted THEN DetailResponses(placeId)
    ELSE {DetailResponse(placeId, script.details)}

(* ------------------------------- store -------------------------------- *)

\* The row of the shipped seed data that the Ginza searches also find.
SeedRow ==
    [name |-> "Ginza Six", category |-> "Luxury Shopping", district |-> "Ginza",
     description |-> "High-end shopping mall with designer boutiques and rooftop garden.",
     map_url |-> "https://maps.google.com/?q=Ginza+Six", rating |-> 46]

InitialTables == { EmptyBag, SetToBag({SeedRow}) }

Key(row) == <<row.name, row.district>>
Keys(table) == {Key(row) : row \in BagToSet(table)}

\* SELECT COUNT(*) FROM venues
Count(table) == BagCardinality(table)

StorageError == "D1_ERROR: storage unreachable"

(* ------------------------------- state -------------------------------- *)

VARIABLES
    venues,      \* the rows of table `venues`
    upstream,    \* how the places API answers: Unscripted, or one of Scripts
    run,         \* per runner: the position and locals of its POST /api/seed
    replay,      \* the current run repeats the previous one: same areas, same upstream answers
    prevClean,   \* no exists-lookup and no insert raised during the previous run
    prevCount,   \* rows of `venues` when the current run started
    norm,        \* the last call of a normalizer function made on its own: input and result
    api          \* the last request to /api/venues since the last seeding request, and its answer

vars == <<venues, upstream, run, replay, prevClean, prevCount, norm, api>>

\* No normalizer function has been called on its own.
NoCall ==
    [fn |-> "", types |-> <<>>, vicinity |-> None, address |-> None,
     place |-> None, details |-> None, threw |-> FALSE, out |-> None]

\* No request to /api/venues has been made.
NoRequest ==
    [op |-> "", body |-> None, authorization |-> None, adminKey |-> None,
     id |-> None, db |-> TRUE, raisesAt |-> "", status |-> None]

Range(seq) == {seq[i] : i \in 1..Len(seq)}

\* The `areas` of a request body.
AreaInputs == { <<"osaka", "ginza">>, <<"ginza">>, <<"kyoto", "osaka">> }

NoResults ==
    [ginza |-> 0, osaka |-> 0, errors |-> <<>>, stats |-> None,
     total |-> None, success |-> None, error |-> None]

IdleRun ==
    [pc |-> "idle", areas |-> <<>>, area |-> "", qi |-> 0,
     places |-> <<>>, ci |-> 0, venue |-> None, totalInserted |-> 0,
     results |-> NoResults, response |-> None,
     \* what happened during the run, kept for the properties
     searched |-> <<>>,        \* the phrases searched, in order
     failed |-> 0,             \* searches that threw
     areaBase |-> 0,           \* rows of `venues` when the current area was entered
     storageRaised |-> FALSE]  \* an exists-lookup or an insert raised

Resting(r) == r.pc \in {"idle", "responded"}

Init ==
    /\ venues \in InitialTables
    /\ upstream = Unscripted
    /\ run = [p \in Runners |-> IdleRun]
    /\ replay = FALSE
    /\ prevClean = FALSE
    /\ prevCount = 0
    /\ norm = NoCall
    /\ api = NoRequest

(* ------------------------------ VenueSeeder --------------------------- *)

FetchFailed == "fetch failed"

\* Faulty variant of searchPlaces: only status OK is no error.
searchPlaces_OnlyOK(resp) ==
    IF resp.raised THEN [threw |-> TRUE, message |-> FetchFailed, places |-> <<>>]
    ELSE IF resp.status # "OK"
    THEN [threw |-> TRUE, message |-> "Google Places API error: " \o resp.status,
          places |-> <<>>]
    ELSE [threw |-> FALSE, message |-> "", places |-> resp.results]

\* searchPlaces: [threw, message, places] for a response of the text search
searchPlaces(resp) ==
    IF resp.raised THEN [threw |-> TRUE, message |-> FetchFailed, places |-> <<>>]
    ELSE IF resp.status # "OK" /\ resp.status # "ZERO_RESULTS"
    THEN [threw |-> TRUE, message |-> "Google Places API error: " \o resp.status,
          places |-> <<>>]
    ELSE [threw |-> FALSE, message |-> "", places |-> resp.results]

\* getPlaceDetails: [threw, details] for a response of the details endpoint
getPlaceDetails(resp) ==
    IF resp.raised THEN [threw |-> TRUE, details |-> None]
    ELSE IF resp.status # "OK" THEN [threw |-> FALSE, details |-> None]
    ELSE [threw |-> FALSE, details |-> resp.result]

\* Faulty variant of Substring0: nothing is cut.
Substring0_Whole(s, n) == s

\* s.substring(0, n)
Substring0(s, n) == SubSeq(s, 1, Min(n, Len(s)))

\* Faulty variant of Description: the place id is put in front.
Description_WithPlaceId(place, details) ==
    place.place_id \o ": " \o place.name \o " - " \o mapCategory(place.types)

\* details?.editorial_summary?.overview || `${place.name} - ${mapCategory(place.types)}`
Description(place, details) ==
    IF IsSome(details) /\ IsSome(Get(details).overview) /\ Get(Get(details).overview) # ""
    THEN Get(Get(details).overview)
    ELSE place.name \o " - " \o mapCategory(place.types)

\* place.rating || 0
RatingOrZero(rating) == IF IsSome(rating) THEN Get(rating) ELSE 0

\* convertToVenue after the details call: [threw, venue]
convertToVenue(place, got) ==
    LET address == IF IsSome(got.details) THEN Get(got.details).formatted_address ELSE None
    IN  IF got.threw \/ extractDistrictThrows(place.vicinity, address)
        THEN [threw |-> TRUE, venue |-> None]
        ELSE [threw |-> FALSE,
              venue |-> Some([name |-> place.name,
                              category |-> mapCategory(place.types),
                              district |-> extractDistrict(place.vicinity, address),
                              description |-> Substring0(Description(place, got.details),
                                                         DescriptionLimit),
                              map_url |-> "https://www.google.com/maps/place/?q=place_id:"
                                          \o place.place_id,
                              rating |-> RatingOrZero(place.rating)])]

\* Faulty variant of Existing: the lookup binds the category where the
\* district belongs.
Existing_ByCategory(table, venue) ==
    \E row \in BagToSet(table) : row.name = venue.name /\ row.category = venue.category

\* Faulty variant of Existing: the lookup finds nothing.
Existing_Never(table, venue) == FALSE

\* SELECT id FROM venues WHERE name = ? AND district = ?
Existing(table, venue) ==
    \E row \in BagToSet(table) : row.name = venue.name /\ row.district = venue.district

\* Faulty variant of Inserted: the new row replaces the rows of the same name.
Inserted_ReplacesSameName(table, venue) ==
    LET kept == {row \in BagToSet(table) : row.name # venue.name}
    IN  [row \in kept |-> table[row]] (+) SetToBag({venue})

\* Faulty variant of Inserted: the statement is executed twice.
Inserted_Twice(table, venue) == table (+) SetToBag({venue}) (+) SetToBag({venue})

\* INSERT INTO venues (name, category, district, description, map_url, rating)
Inserted(table, venue) == table (+) SetToBag({venue})

\* Faulty variant of GroupCount: COUNT(DISTINCT field) in place of COUNT(*).
GroupCount_Distinct(table, field) ==
    [v \in {row[field] : row \in BagToSet(table)} |-> 1]

GroupCount(table, field) ==
    [v \in {row[field] : row \in BagToSet(table)} |->
        BagCardinality([row \in {x \in BagToSet(table) : x[field] = v} |-> table[row]])]

\* getStats
Stats(table) ==
    [total |-> Count(table),
     byCategory |-> GroupCount(table, "category"),
     byDistrict |-> GroupCount(table, "district")]

(* loop control of seedDatabase and seedArea, on a runner's record *)

\* seedGinza() / seedOsaka() entered: seedArea starts with its first query
EnterArea(r, area, table) ==
    [r EXCEPT !.pc = "search", !.area = area, !.qi = 1, !.totalInserted = 0,
              !.places = <<>>, !.ci = 0, !.venue = None, !.areaBase = Count(table)]

\* past the two `if (areas.includes(...))` of the try block
ToStats(r) ==
    [r EXCEPT !.pc = "stats", !.area = "", !.qi = 0, !.totalInserted = 0,
              !.places = <<>>, !.ci = 0, !.venue = None, !.areaBase = 0]

\* Faulty variant of Begin: an area outside {ginza, osaka} throws.
Begin_RejectsUnknown(r, table) ==
    IF Range(r.areas) \ {"ginza", "osaka"} # {}
    THEN [r EXCEPT !.pc = "done",
                   !.results.success = Some(FALSE),
                   !.results.error = Some("Unsupported area"),
                   !.results.errors = <<"Unsupported area">>]
    ELSE IF "ginza" \in Range(r.areas) THEN EnterArea(r, "ginza", table)
    ELSE IF "osaka" \in Range(r.areas) THEN EnterArea(r, "osaka", table)
    ELSE ToStats(r)

\* Faulty variant of Begin: the area the caller lists first is entered first.
Begin_CallerOrder(r, table) ==
    LET listed == SelectSeq(r.areas, LAMBDA a : a \in {"ginza", "osaka"})
    IN  IF listed = <<>> THEN ToStats(r) ELSE EnterArea(r, listed[1], table)

\* seedDatabase's try block, from its start
Begin(r, table) ==
    IF "ginza" \in Range(r.areas) THEN EnterArea(r, "ginza", table)
    ELSE IF "osaka" \in Range(r.areas) THEN EnterArea(r, "osaka", table)
    ELSE ToStats(r)

\* seedArea returns totalInserted: results.<area> is assigned, the next area follows
AfterArea(r, table) ==
    LET returned == [r EXCEPT !.results[r.area] = r.totalInserted]
    IN  IF r.area = "ginza" /\ "osaka" \in Range(r.areas)
        THEN EnterArea(returned, "osaka", table)
        ELSE ToStats(returned)

\* the end of one pass of `for (const query of queries)`
NextQuery(r, table) ==
    IF r.qi < Len(Queries(r.area))
    THEN [r EXCEPT !.pc = "search", !.qi = r.qi + 1, !.places = <<>>, !.ci = 0, !.venue = None]
    ELSE AfterArea(r, table)

\* the end of one pass of `for (const place of places.slice(0, 5))`
NextPlace(r, table) ==
    IF r.ci < Len(r.places)
    THEN [r EXCEPT !.pc = "convert", !.ci = r.ci + 1, !.venue = None]
    ELSE NextQuery(r, table)

\* Faulty variant of SearchFailed: the failed search is made again.
SearchFailed_Retry(r, table) ==
    [r EXCEPT !.pc = "search", !.failed = r.failed + 1]

\* Faulty variant of SearchFailed: the failed search ends the area.
SearchFailed_Break(r, table) == AfterArea([r EXCEPT !.failed = r.failed + 1], table)

\* seedArea's catch of a failed search: console.error, then the next query
SearchFailed(r, table) == NextQuery([r EXCEPT !.failed = r.failed + 1], table)

\* Faulty variant of Completed: a failed search makes the run unsuccessful.
Completed_FailsOnErrors(r, table) ==
    [r EXCEPT !.pc = "done",
              !.results.stats = Some(Stats(table)),
              !.results.total = Some(r.results.ginza + r.results.osaka),
              !.results.success = Some(r.failed = 0)]

\* seedDatabase after the areas: stats, total and success are assigned
Completed(r, table) ==
    [r EXCEPT !.pc = "done",
              !.results.stats = Some(Stats(table)),
              !.results.total = Some(r.results.ginza + r.results.osaka),
              !.results.success = Some(TRUE)]

\* seedDatabase's catch
Failed(r, message) ==
    [r EXCEPT !.pc = "done",
              !.results.success = Some(FALSE),
              !.results.error = Some(message),
              !.results.errors = Append(r.results.errors, message)]

(* ------------------------------ actions ------------------------------- *)

\* POST /api/seed refused before seeding: no API key (400), no DB binding (500)
PostRefused(p) ==
    /\ Resting(run[p])
    /\ \E status \in {400, 500} :
         run' = [run EXCEPT ![p] =
                    [IdleRun EXCEPT !.pc = "responded",
                                    !.response = Some([status |-> status, success |-> None,
                                                       results |-> None, errors |-> None])]]
    /\ replay' = FALSE
    /\ prevClean' = FALSE
    /\ UNCHANGED <<venues, upstream, prevCount>>

\* POST /api/seed calls seedDatabase(apiKey, env.DB, areas); seedDatabase
\* builds `results` and enters its try block.
\* again: the request repeats the runner's previous one, against the same
\* scripted upstream.
Post(p) ==
    /\ Resting(run[p])
    /\ \E areas \in AreaInputs, again \in BOOLEAN :
         LET prev == run[p]
         IN  /\ again => /\ prev.pc = "responded"
                         /\ IsSome(prev.results.success)
                         /\ prev.areas = areas
                         /\ upstream # Unscripted
             /\ replay' = again
             /\ upstream' \in (IF again THEN {upstream} ELSE {Unscripted} \cup Scripts)
             /\ prevClean' = (again /\ ~prev.storageRaised)
             /\ run' = [run EXCEPT ![p] = Begin([IdleRun EXCEPT !.areas = areas], venues)]
    /\ prevCount' = Count(venues)
    /\ UNCHANGED venues

\* Faulty variant of Search: every place found becomes a candidate.
Search_AllPlaces(p) ==
    LET r == run[p]
        query == Queries(r.area)[r.qi]
    IN  /\ r.pc = "search"
        /\ \E resp \in SearchAnswers(upstream, r.qi) :
             LET got   == searchPlaces(resp)
                 asked == [r EXCEPT !.searched = Append(r.searched, query)]
             IN  run' = [run EXCEPT ![p] =
                    IF got.threw
                    THEN SearchFailed(asked, venues)
                    ELSE NextPlace([asked EXCEPT !.places = got.places, !.ci = 0], venues)]
        /\ UNCHANGED <<venues, upstream, replay, prevClean, prevCount>>

\* seedArea: one pass of the query loop up to the candidate loop
\* (searchPlaces, and the catch of a failed search)
Search(p) ==
    LET r == run[p]
        query == Queries(r.area)[r.qi]
    IN  /\ r.pc = "search"
        /\ \E resp \in SearchAnswers(upstream, r.qi) :
             LET got   == searchPlaces(resp)
                 top   == SubSeq(got.places, 1, Min(TopN, Len(got.places)))
                 asked == [r EXCEPT !.searched = Append(r.searched, query)]
             IN  run' = [run EXCEPT ![p] =
                    IF got.threw
                    THEN SearchFailed(asked, venues)
                    ELSE NextPlace([asked EXCEPT !.places = top, !.ci = 0], venues)]
        /\ UNCHANGED <<venues, upstream, replay, prevClean, prevCount>>

\* Faulty variant of ConvertToVenue: a conversion that throws ends the query.
ConvertToVenue_ThrowEndsQuery(p) ==
    LET r == run[p]
        place == r.places[r.ci]
    IN  /\ r.pc = "convert"
        /\ \E resp \in DetailAnswers(upstream, place.place_id) :
             LET made == convertToVenue(place, getPlaceDetails(resp))
             IN  run' = [run EXCEPT ![p] =
                    IF made.threw THEN NextQuery(r, venues)
                    ELSE [r EXCEPT !.pc = "exists", !.venue = made.venue]]
        /\ UNCHANGED <<venues, upstream, replay, prevClean, prevCount>>

\* seedArea: convertToVenue(place) inside the candidate's try
ConvertToVenue(p) ==
    LET r == run[p]
        place == r.places[r.ci]
    IN  /\ r.pc = "convert"
        /\ \E resp \in DetailAnswers(upstream, place.place_id) :
             LET made == convertToVenue(place, getPlaceDetails(resp))
             IN  run' = [run EXCEPT ![p] =
                    IF made.threw THEN NextPlace(r, venues)
                    ELSE [r EXCEPT !.pc = "exists", !.venue = made.venue]]
        /\ UNCHANGED <<venues, upstream, replay, prevClean, prevCount>>

\* Faulty variant of StorageRaises: the error leaves seedArea and reaches
\* seedDatabase's catch.
StorageRaises_Abort(p) ==
    /\ run' = [run EXCEPT ![p] = Failed([run[p] EXCEPT !.storageRaised = TRUE], StorageError)]
    /\ UNCHANGED venues

\* a statement of insertVenue raises (D1 unreachable): the candidate's catch
\* logs it and the candidate loop goes on
StorageRaises(p) ==
    /\ run' = [run EXCEPT ![p] = NextPlace([run[p] EXCEPT !.storageRaised = TRUE], venues)]
    /\ UNCHANGED venues

\* insertVenue, first statement: the exists-lookup and the early return;
\* after the return, totalInserted++
InsertVenueSelect(p) ==
    LET r == run[p]
    IN  /\ r.pc = "exists"
        /\ \/ StorageRaises(p)
           \/ /\ run' = [run EXCEPT ![p] =
                     IF Existing(venues, Get(r.venue))
                     THEN [r EXCEPT !.pc = "delay", !.totalInserted = r.totalInserted + 1]
                     ELSE [r EXCEPT !.pc = "insert"]]
              /\ UNCHANGED venues
        /\ UNCHANGED <<upstream, replay, prevClean, prevCount>>

\* insertVenue, second statement: the INSERT; then totalInserted++
InsertVenueInsert(p) ==
    LET r == run[p]
    IN  /\ r.pc = "insert"
        /\ \/ StorageRaises(p)
           \/ /\ venues' = Inserted(venues, Get(r.venue))
              /\ run' = [run EXCEPT ![p] =
                     [r EXCEPT !.pc = "delay", !.totalInserted = r.totalInserted + 1]]
        /\ UNCHANGED <<upstream, replay, prevClean, prevCount>>

\* Faulty variant of Delay: the candidates left of the query are dropped.
Delay_EndsQuery(p) ==
    /\ run[p].pc = "delay"
    /\ run' = [run EXCEPT ![p] = NextQuery(run[p], venues)]
    /\ UNCHANGED <<venues, upstream, replay, prevClean, prevCount>>

\* await new Promise(resolve => setTimeout(resolve, 100))
Delay(p) ==
    /\ run[p].pc = "delay"
    /\ run' = [run EXCEPT ![p] = NextPlace(run[p], venues)]
    /\ UNCHANGED <<venues, upstream, replay, prevClean, prevCount>>

\* Faulty variant of GetStats: the statistics query never returns.
GetStats_NeverReturns(p) ==
    /\ run[p].pc = "stats"
    /\ UNCHANGED vars

\* seedDatabase: getStats, total, success; or, when getStats raises, the catch
GetStats(p) ==
    LET r == run[p]
    IN  /\ r.pc = "stats"
        /\ \/ run' = [run EXCEPT ![p] = Failed(r, StorageError)]
           \/ run' = [run EXCEPT ![p] = Completed(r, venues)]
        /\ UNCHANGED <<venues, upstream, replay, prevClean, prevCount>>

\* Faulty variant of Respond: a failed search turns the status to 500.
Respond_StatusByFailures(p) ==
    LET r == run[p]
    IN  /\ r.pc = "done"
        /\ run' = [run EXCEPT ![p] =
               [r EXCEPT !.pc = "responded",
                         !.response = Some([status |-> IF r.failed > 0 THEN 500 ELSE 200,
                                            success |-> r.results.success,
                                            results |-> Some([ginza |-> r.results.ginza,
                                                              osaka |-> r.results.osaka,
                                                              total |-> r.results.total]),
                                            errors |-> Some(r.results.errors)])]]
        /\ UNCHANGED <<venues, upstream, replay, prevClean, prevCount>>

\* POST /api/seed: NextResponse.json({success, results: {ginza, osaka, total}, stats, errors})
Respond(p) ==
    LET r == run[p]
    IN  /\ r.pc = "done"
        /\ run' = [run EXCEPT ![p] =
               [r EXCEPT !.pc = "responded",
                         !.response = Some([status |-> 200,
                                            success |-> r.results.success,
                                            results |-> Some([ginza |-> r.results.ginza,
                                                              osaka |-> r.results.osaka,
                                                              total |-> r.results.total]),
                                            errors |-> Some(r.results.errors)])]]
        /\ UNCHANGED <<venues, upstream, replay, prevClean, prevCount>>

Step(p) ==
    \/ Search(p)
    \/ ConvertToVenue(p)
    \/ InsertVenueSelect(p)
    \/ InsertVenueInsert(p)
    \/ Delay(p)
    \/ GetStats(p)
    \/ Respond(p)

AllResting == \A q \in Runners : Resting(run[q])

\* Runs one after another: a request starts only when no run is under way.
Next ==
    /\ \E p \in SequentialRunners :
           \/ AllResting /\ PostRefused(p)
           \/ AllResting /\ Post(p)
           \/ Step(p)
    /\ UNCHANGED <<norm, api>>

Spec == Init /\ [][Next]_vars

\* Every awaited call of a run under way eventually returns or raises: the
\* run's next step is eventually taken.
FairSpec == Spec /\ \A p \in SequentialRunners : WF_vars(Step(p) /\ UNCHANGED <<norm, api>>)

(* ============================== properties ============================ *)

r1 == run["r1"]

\* The run of a runner has returned from seedDatabase.
Returned(r) == r.pc = "done"

\* The phrases a run searches: Ginza's, then Osaka's, of the areas it selects.
SelectedQueries(areas) ==
    (IF "ginza" \in Range(areas) THEN Queries("ginza") ELSE <<>>)
    \o (IF "osaka" \in Range(areas) THEN Queries("osaka") ELSE <<>>)

(* C1: under runs executed one after another, from a table with unique
   (name, district) pairs, no two rows of `venues` ever share a
   (name, district) pair, whatever the areas and the upstream answers. *)
C1_UniqueNameDistrict ==
    /\ \A row \in BagToSet(venues) : CopiesIn(row, venues) = 1
    /\ \A a, b \in BagToSet(venues) : Key(a) = Key(b) => a = b

\* A repeated run has finished over a table of three rows, one of them the
\* seed row that a candidate of the run duplicates.
C1_Witness ==
    /\ Returned(r1) /\ replay
    /\ Count(venues) >= 3
    /\ BagIn(SeedRow, venues)
    /\ r1.results.ginza >= 2

(* C2 (as claimed): when a run repeats the previous one (same areas, same
   upstream answers), the number of rows after it equals the number of rows
   after the previous one. *)
C2_RepeatAddsNothing ==
    \A p \in Runners : (Returned(run[p]) /\ replay) => Count(venues) = prevCount

(* C2 (amended): the same, provided no exists-lookup and no insert raised a
   storage error during the previous run; the repeated run then never comes
   to an INSERT. *)
C2_RepeatAddsNothingAfterCleanRun ==
    \A p \in Runners :
        (replay /\ prevClean) =>
            /\ run[p].pc # "insert"
            /\ Returned(run[p]) => Count(venues) = prevCount

\* A repeated run after a clean one has finished, and its candidates were
\* all skipped as duplicates (they are counted, the table did not grow).
C2_Witness ==
    /\ Returned(r1) /\ replay /\ prevClean
    /\ r1.results.ginza >= 2
    /\ Count(venues) = prevCount
    /\ Count(venues) >= 2

(* C3: when seedArea returns, the count it returns for the area equals the
   number of rows added to `venues` while the area was processed. *)
C3_CountIsRowsAdded ==
    [][\A p \in Runners :
          (run[p].area \in {"ginza", "osaka"} /\ run'[p].area # run[p].area)
          => run'[p].results[run[p].area] = Count(venues') - run[p].areaBase]_vars

\* The run of a runner is past every selected area.
PastAreas(r) == r.pc \in {"stats", "done", "responded"}

IsPrefix(a, b) == Len(a) <= Len(b) /\ a = SubSeq(b, 1, Len(a))

\* The places of the first TopN results of every search the scripted
\* upstream answers with a result list, for the phrases of the selected areas.
ScriptedPlaces(script, areas) ==
    UNION { LET places == searchPlaces(ScriptedSearch(script, i)).places
            IN  {places[k] : k \in 1..Min(TopN, Len(places))}
          : i \in 1..Len(SelectedQueries(areas)) }

\* The venues the scripted upstream makes of them, where the conversion
\* does not throw.
ScriptedVenues(script, areas) ==
    { Get(convertToVenue(place,
              getPlaceDetails(DetailResponse(place.place_id, script.details))).venue)
      : place \in { q \in ScriptedPlaces(script, areas) :
                      ~convertToVenue(q,
                          getPlaceDetails(DetailResponse(q.place_id, script.details))).threw } }

(* C4: a failed search ends neither the area nor the run: the phrases
   searched are always a prefix of the phrases of the selected areas, Ginza's
   first, and past the areas they are all of them; against a scripted
   upstream, and with a store that answered every statement, every venue
   the answered searches convert to is then stored under its
   (name, district). *)
C4_SearchFailureIsolated ==
    \A p \in Runners :
        LET r == run[p]
        IN  /\ IsPrefix(r.searched, SelectedQueries(r.areas))
            /\ PastAreas(r) => r.searched = SelectedQueries(r.areas)
            /\ (PastAreas(r) /\ upstream \in Scripts /\ ~r.storageRaised)
                   => \A v \in ScriptedVenues(upstream, r.areas) : Key(v) \in Keys(venues)

\* A run over both areas has returned: the first search of each area was
\* denied, the later ones were answered and their venues added.
C4_Witness ==
    /\ Returned(r1) /\ upstream \in Scripts
    /\ ScriptedSearch(upstream, 1) = Denied
    /\ r1.failed >= 2 /\ ~r1.storageRaised
    /\ {"ginza", "osaka"} \subseteq Range(r1.areas)
    /\ Len(r1.searched) = Len(Queries("ginza")) + Len(Queries("osaka"))
    /\ Count(venues) > prevCount
    /\ r1.results.osaka >= 1

(* C5: the errors list a run returns has exactly one entry for each search
   that failed (and one more for the fatal error of a failed run). *)
C5_OneErrorPerFailedSearch ==
    \A p \in Runners :
        Returned(run[p]) =>
            Len(run[p].results.errors)
                = run[p].failed + (IF IsSome(run[p].results.error) THEN 1 ELSE 0)

\* The candidate a runner is at, inside the candidate loop.
AtPlace(r) == r.pc \in {"convert", "exists", "insert", "delay"}
Place(r) == r.places[r.ci]

\* The scripted upstream answers every details call without data:
\* with a status other than OK, or the call raises.
EnrichFails == upstream \in Scripts /\ upstream.details \in {"NOT_FOUND", "raised"}

(* C6: a candidate that has a rough location and whose details call fails,
   by a non-OK status or by raising, is converted from its raw name and
   passed on to the exists-lookup. *)
C6_EnrichFailureKeepsCandidate ==
    [][\A p \in Runners :
          (run[p].pc = "convert" /\ EnrichFails /\ IsSome(Place(run[p]).vicinity)
           /\ run'[p] # run[p])
          => /\ run'[p].pc = "exists"
             /\ Get(run'[p].venue).name = Place(run[p]).name]_vars

\* A statement of insertVenue raised in the step: the candidate loop is left
\* for the next candidate, query, area, or for what follows the areas.
StorageRaised(r, rNext) ==
    r.pc \in {"exists", "insert"} /\ rNext.pc \notin {"insert", "delay"}

\* The candidate has no rating and its details call returns no data.
Unrated(r) ==
    /\ upstream \in Scripts /\ upstream.details = "NOT_FOUND"
    /\ AtPlace(r) /\ Place(r).rating = None /\ IsSome(Place(r).vicinity)

\* The columns made of the raw candidate alone.
FromRawAlone(venue, place) ==
    /\ venue.name = place.name
    /\ venue.category = mapCategory(place.types)
    /\ venue.district = extractDistrict(place.vicinity, None)
    /\ venue.rating = 0
    /\ venue.description = place.name \o " - " \o mapCategory(place.types)

(* C7: for a candidate without rating whose details call returns no data,
   the conversion gives name, category, district, rating 0 and the
   description "{name} - {category}" from the raw candidate alone; when its
   (name, district) is not stored, the lookup leads to the INSERT, and the
   INSERT adds exactly that one row and nothing else (the store answering).
   For Mitsukoshi Ginza, tagged department_store, near "Chuo, Ginza, Tokyo",
   the row has category Department Store, district Ginza and description
   "Mitsukoshi Ginza - Department Store". *)
C7_EnrichlessVenueStored ==
    [][\A p \in Runners :
          LET r == run[p]
              rNext == run'[p]
          IN  (Unrated(r) /\ rNext # r /\ ~StorageRaised(r, rNext))
              => /\ r.pc = "convert"
                    => /\ rNext.pc = "exists"
                       /\ FromRawAlone(Get(rNext.venue), Place(r))
                       /\ Place(r).name = "Mitsukoshi Ginza"
                          => /\ Place(r).types = <<"department_store">>
                             /\ Place(r).vicinity = Some("Chuo, Ginza, Tokyo")
                             /\ Get(rNext.venue).category = "Department Store"
                             /\ Get(rNext.venue).district = "Ginza"
                             /\ Get(rNext.venue).rating = 0
                             /\ Get(rNext.venue).description
                                    = "Mitsukoshi Ginza - Department Store"
                 /\ r.pc = "exists"
                    => /\ rNext.venue = r.venue /\ venues' = venues
                       /\ (Key(Get(r.venue)) \notin Keys(venues)) => rNext.pc = "insert"
                 /\ r.pc = "insert"
                    => /\ Key(Get(r.venue)) \notin Keys(venues)
                       /\ FromRawAlone(Get(r.venue), Place(r))
                       /\ venues' = venues (+) SetToBag({Get(r.venue)})
                       /\ CopiesIn(Get(r.venue), venues') = 1
                       /\ Count(venues') = Count(venues) + 1
                       /\ rNext.pc = "delay"]_vars

\* Mitsukoshi Ginza has just been stored from its raw data alone.
C7_Witness ==
    /\ r1.pc = "delay" /\ Unrated(r1)
    /\ Place(r1) = MitsukoshiGinza
    /\ CopiesIn(Get(r1.venue), venues) = 1
    /\ Get(r1.venue).district = "Ginza"
    /\ Get(r1.venue).description = "Mitsukoshi Ginza - Department Store"
    /\ Count(venues) = prevCount + 1

(* C8 (as claimed): when an exists-lookup or an insert raises a storage
   error, the run ends there, in Failed, with success = false. *)
C8_StorageErrorAborts ==
    [][\A p \in Runners :
          StorageRaised(run[p], run'[p])
          => /\ Returned(run'[p])
             /\ run'[p].results.success = Some(FALSE)]_vars

(* C8 (amended): a storage error of an exists-lookup or an insert is caught
   with its candidate: no row is added, the candidate is not counted, and
   the run goes on, undecided, with the next candidate, query or area, or
   with the statistics; a run turns to Failed only in the statistics step. *)
C8_StorageErrorSkipsCandidate ==
    [][\A p \in Runners :
          LET r == run[p]
              rNext == run'[p]
          IN  /\ StorageRaised(r, rNext)
                 => /\ venues' = venues
                    /\ rNext.pc \in {"convert", "search", "stats"}
                    /\ rNext.results.success = None /\ rNext.results.errors = <<>>
                    /\ IF rNext.area = r.area
                       THEN rNext.totalInserted = r.totalInserted
                       ELSE rNext.results[r.area] = r.totalInserted
              /\ (rNext.results.success = Some(FALSE) /\ r.results.success # Some(FALSE))
                 => r.pc = "stats"]_vars

\* A run in which a statement of insertVenue raised has gone on to add rows
\* and has returned with success = true.
C8_Witness ==
    /\ Returned(r1) /\ r1.storageRaised
    /\ r1.results.success = Some(TRUE)
    /\ r1.results.errors = <<>>
    /\ Count(venues) > prevCount

(* C9: a run that ends in Failed returns success = false, a defined total
   equal to the sum of the counts of the areas, and an errors list holding
   the fatal message. *)
C9_FailedResultHasTotal ==
    \A p \in Runners :
        LET results == run[p].results
        IN  (Returned(run[p]) /\ IsSome(results.error))
            => /\ results.success = Some(FALSE)
               /\ IsSome(results.total)
               /\ Get(results.total) = results.ginza + results.osaka
               /\ \E i \in 1..Len(results.errors) : results.errors[i] = Get(results.error)

\* The next step of the run that is under way can be taken.
CanStep(p) == ENABLED Step(p)

(* C10: a run that returns without run-level exception, whatever searches
   and candidates failed in it, has searched every phrase of every selected
   area and returns success = true with total = ginza + osaka; and a run
   under way can always take its next step. *)
C10_CompletedDespiteFailures ==
    \A p \in Runners :
        LET r == run[p]
        IN  /\ (Returned(r) /\ ~IsSome(r.results.error))
               => /\ r.searched = SelectedQueries(r.areas)
                  /\ r.results.success = Some(TRUE)
                  /\ r.results.total = Some(r.results.ginza + r.results.osaka)
                  /\ IsSome(r.results.stats)
            /\ ~Resting(r) => CanStep(p)

\* A run over both areas, with failed searches and a candidate lost to a
\* storage error, has completed.
C10_Witness ==
    /\ Returned(r1) /\ ~IsSome(r1.results.error)
    /\ r1.failed >= 1 /\ r1.storageRaised
    /\ {"ginza", "osaka"} \subseteq Range(r1.areas)
    /\ r1.results.success = Some(TRUE)
    /\ IsSome(r1.results.total) /\ Get(r1.results.total) >= 2
    /\ r1.results.ginza >= 1 /\ r1.results.osaka >= 1

\* The request of a runner has been answered.
Responded(r) == r.pc = "responded"

(* C11 (as claimed): every request is answered with HTTP 200, or, when the
   run threw, with HTTP 500. *)
C11_Status200Or500 ==
    \A p \in Runners : Responded(run[p]) => Get(run[p].response).status \in {200, 500}

(* C11 (amended): a request refused before seeding (no API key: 400; no
   database binding: 500) is answered without a run and without a success
   flag; every request that seedDatabase ran for is answered with HTTP 200
   and the success flag of the run, which is true exactly when
   seedDatabase's catch was not entered, whatever searches or candidates
   failed. *)
C11_StatusAndSuccess ==
    \A p \in Runners :
        LET r == run[p]
            response == Get(r.response)
        IN  Responded(r)
            => /\ response.status \in {200, 400, 500}
               /\ response.status = 200 <=> IsSome(r.results.success)
               /\ response.success = r.results.success
               /\ response.status = 200
                  => response.success = Some(~IsSome(r.results.error))
               /\ response.status # 200
                  => r.searched = <<>> /\ response.results = None

\* A run with a failed search and a failed candidate has been answered with
\* HTTP 200 and success = true.
C11_Witness ==
    /\ Responded(r1) /\ r1.failed >= 1 /\ r1.storageRaised
    /\ Get(r1.response).status = 200
    /\ Get(r1.response).success = Some(TRUE)

RECURSIVE CallerOrderQueries(_)
\* The phrases of the supported areas, in the order the caller lists the areas.
CallerOrderQueries(areas) ==
    IF areas = <<>> THEN <<>>
    ELSE (IF Head(areas) \in {"ginza", "osaka"} THEN Queries(Head(areas)) ELSE <<>>)
         \o CallerOrderQueries(Tail(areas))

(* C12 (as claimed): the phrases are searched area by area in the order
   the caller lists the areas, each area's in catalog order. *)
C12_CallerOrder ==
    \A p \in Runners : IsPrefix(run[p].searched, CallerOrderQueries(run[p].areas))

\* Position of a phrase in the searches of a run, 0 when it was not searched.
SearchedAt(r, phrase) ==
    IF \E i \in 1..Len(r.searched) : r.searched[i] = phrase
    THEN CHOOSE i \in 1..Len(r.searched) : r.searched[i] = phrase
    ELSE 0

(* C12 (amended): Ginza is processed before Osaka whatever the order of
   the areas list, and the phrases of an area in catalog order: every Osaka
   phrase is searched after every Ginza phrase when both are selected, and a
   phrase is searched after the phrases before it in its catalog. *)
C12_GinzaThenOsakaInCatalogOrder ==
    \A p \in Runners :
        LET r == run[p]
        IN  /\ \A i \in 1..Len(r.searched) : \A j \in 1..Len(r.searched) :
                  (i < j) =>
                      /\ ~(r.searched[i] \in Range(OsakaCatalog)
                           /\ r.searched[j] \in Range(GinzaCatalog))
                      /\ r.searched[i] # r.searched[j]
            /\ \A area \in {"ginza", "osaka"} :
                  \A k \in 1..Len(Queries(area)) :
                      SearchedAt(r, Queries(area)[k]) > 0
                      => /\ area \in Range(r.areas)
                         /\ \A h \in 1..(k - 1) :
                               /\ SearchedAt(r, Queries(area)[h]) > 0
                               /\ SearchedAt(r, Queries(area)[h])
                                      < SearchedAt(r, Queries(area)[k])
            /\ (SearchedAt(r, Queries("osaka")[1]) > 0 /\ "ginza" \in Range(r.areas))
               => SearchedAt(r, Queries("ginza")[Len(Queries("ginza"))]) > 0

\* A run asked for [osaka, ginza] has searched Ginza's phrases and is at
\* Osaka's.
C12_Witness ==
    /\ r1.areas = <<"osaka", "ginza">>
    /\ r1.area = "osaka" /\ r1.pc = "search" /\ r1.qi = Len(Queries("osaka"))
    /\ SearchedAt(r1, Queries("ginza")[1]) = 1
    /\ SearchedAt(r1, Queries("osaka")[1]) = Len(Queries("ginza")) + 1

\* The area identifiers of a request that seedDatabase does not know.
Unsupported(areas) == Range(areas) \ {"ginza", "osaka"}

(* C13: in a run whose areas list holds an identifier outside
   {ginza, osaka}, every phrase searched is a phrase of a supported area of
   the list, the supported areas of the list are searched in full, and the
   only run-level error is that of the statistics step: a run that returns
   without it has success = true. *)
C13_UnsupportedAreaSkipped ==
    \A p \in Runners :
        LET r == run[p]
        IN  Unsupported(r.areas) # {}
            => /\ \A i \in 1..Len(r.searched) :
                     \E area \in Range(r.areas) \cap {"ginza", "osaka"} :
                        r.searched[i] \in Range(Queries(area))
               /\ PastAreas(r) => r.searched = SelectedQueries(r.areas)
               /\ r.results.error \in {None, Some(StorageError)}
               /\ (Returned(r) /\ r.results.error = None)
                  => r.results.success = Some(TRUE)

\* A run asked for [kyoto, osaka] has returned with success = true, having
\* searched Osaka's phrases and nothing else.
C13_Witness ==
    /\ Returned(r1) /\ r1.areas = <<"kyoto", "osaka">>
    /\ r1.searched = Queries("osaka")
    /\ r1.results.success = Some(TRUE)
    /\ r1.results.osaka >= 1 /\ r1.results.ginza = 0

\* Statuses of the text search (Places API), the two that are no error first.
SearchStatuses ==
    {"OK", "ZERO_RESULTS", "OVER_QUERY_LIMIT", "REQUEST_DENIED", "INVALID_REQUEST",
     "UNKNOWN_ERROR"}

(* C14: searchPlaces throws its "Google Places API error" exactly for a
   response whose status is neither OK nor ZERO_RESULTS; in a run, a search
   answered with a status counts as failed exactly then, and one answered
   ZERO_RESULTS yields no candidate, adds no row, counts nothing and
   records no error: the run goes on with the next query. *)
C14_SearchErrorByStatus ==
    [][/\ \A status \in SearchStatuses :
             LET got == searchPlaces([raised |-> FALSE, status |-> status, results |-> <<>>])
             IN  /\ got.threw <=> status \notin {"OK", "ZERO_RESULTS"}
                 /\ got.threw => got.message = "Google Places API error: " \o status
                 /\ ~got.threw => got.places = <<>>
       /\ \A p \in Runners :
             LET r == run[p]
                 rNext == run'[p]
                 resp == ScriptedSearch(upstream, r.qi)
             IN  (r.pc = "search" /\ upstream \in Scripts /\ rNext # r /\ ~resp.raised)
                 => /\ rNext.failed = (IF resp.status \in {"OK", "ZERO_RESULTS"}
                                       THEN r.failed ELSE r.failed + 1)
                    /\ rNext.results.errors = r.results.errors
                    /\ (resp.status = "OK" /\ resp.results # <<>>)
                       => rNext.pc = "convert" /\ rNext.places # <<>>
                    /\ resp.status = "ZERO_RESULTS"
                       => /\ venues' = venues
                          /\ rNext.pc \in {"search", "stats"}
                          /\ rNext.places = <<>>
                          /\ IF rNext.area = r.area
                             THEN rNext.totalInserted = r.totalInserted
                             ELSE rNext.results[r.area] = r.totalInserted]_vars

\* The first search of a run was answered ZERO_RESULTS; the run is at its
\* second query with no failure counted and no row added.
C14_Witness ==
    /\ upstream \in Scripts /\ ScriptedSearch(upstream, 1) = FoundNone
    /\ r1.pc = "search" /\ r1.qi = 2 /\ Len(r1.searched) = 1
    /\ r1.failed = 0 /\ r1.totalInserted = 0
    /\ Count(venues) = prevCount

\* Some row of the table has both the name and the district of the venue.
SameNameAndDistrict(table, venue) ==
    \E row \in BagToSet(table) : row.name = venue.name /\ row.district = venue.district

(* C15: insertVenue adds exactly one row, the venue, when no row has both
   its name and its district, and otherwise (or when a statement raises)
   leaves the table as it is; no step of the pipeline changes or removes a
   row that is stored. *)
C15_InsertFrame ==
    [][/\ \A row \in BagToSet(venues) :
             BagIn(row, venues') /\ CopiesIn(row, venues') >= CopiesIn(row, venues)
       /\ \A p \in Runners :
             LET r == run[p]
                 rNext == run'[p]
             IN  /\ (r.pc = "exists" /\ rNext # r)
                    => /\ venues' = venues
                       /\ ~StorageRaised(r, rNext)
                          => rNext.pc = (IF SameNameAndDistrict(venues, Get(r.venue))
                                         THEN "delay" ELSE "insert")
                 /\ (r.pc = "insert" /\ rNext # r)
                    => /\ ~SameNameAndDistrict(venues, Get(r.venue))
                       /\ IF StorageRaised(r, rNext)
                          THEN venues' = venues
                          ELSE /\ venues' = venues (+) SetToBag({Get(r.venue)})
                               /\ Count(venues') = Count(venues) + 1
                 /\ (r.pc \notin {"insert"} /\ rNext # r) => venues' = venues]_vars

\* Cafe X is stored once in Chuo and once in Shibuya; the seed row of Ginza
\* Six is stored as shipped, and the candidate Ginza Six, which differs from
\* it in category, has just been skipped as its duplicate.
C15_Witness ==
    /\ {<<"Cafe X", "Chuo">>, <<"Cafe X", "Shibuya">>} \subseteq Keys(venues)
    /\ r1.pc = "delay" /\ Place(r1) = GinzaSix
    /\ BagIn(SeedRow, venues) /\ ~BagIn(Get(r1.venue), venues)
    /\ Key(Get(r1.venue)) = Key(SeedRow)
    /\ Get(r1.venue).category # SeedRow.category
    /\ \A row \in BagToSet(venues) : CopiesIn(row, venues) = 1

(* ================== the normalizer functions on their own ============== *)

\* Type tags: some of the lookup table, some unknown to it.
Tags == {"unknown_tag", "cafe", "restaurant", "store", "lodging"}

RECURSIVE SeqsUpTo(_, _)
\* The sequences over `set` of length at most n.
SeqsUpTo(set, n) ==
    IF n = 0 THEN {<<>>}
    ELSE LET shorter == SeqsUpTo(set, n - 1)
         IN  shorter \cup {Append(q, x) : q \in shorter, x \in set}

TagSeqs == SeqsUpTo(Tags, MaxTags)

\* mapCategory(types), for any tag sequence
MapCategory ==
    /\ \E types \in TagSeqs :
         norm' = [NoCall EXCEPT !.fn = "mapCategory", !.types = types,
                                !.out = Some(mapCategory(types))]
    /\ UNCHANGED <<venues, upstream, run, replay, prevClean, prevCount, api>>

\* Rough locations and formatted addresses: missing, empty, with names of
\* the Tokyo list, of the Osaka list, of both, of neither.
Addresses ==
    { None, Some(""), Some("Chuo, Ginza, Tokyo"), Some("Shibuya"),
      Some("1-2 Namba, Chuo Ward, Osaka"), Some("Namba, Osaka"),
      Some("Umeda, Kita Ward"), Some("Dotonbori, Minami"),
      Some("Kyoto Station"), Some("Roppongi Hills, Minato") }

\* extractDistrict(vicinity, address), for any two of them
ExtractDistrict ==
    /\ \E vicinity \in Addresses, address \in Addresses :
         LET threw == extractDistrictThrows(vicinity, address)
         IN  norm' = [NoCall EXCEPT !.fn = "extractDistrict",
                                    !.vicinity = vicinity, !.address = address,
                                    !.threw = threw,
                                    !.out = IF threw THEN None
                                            ELSE Some(extractDistrict(vicinity, address))]
    /\ UNCHANGED <<venues, upstream, run, replay, prevClean, prevCount, api>>

RECURSIVE Repeat(_, _)
\* s repeated n times
Repeat(s, n) ==
    IF n = 0 THEN ""
    ELSE LET half == Repeat(s, n \div 2)
         IN  half \o half \o (IF n % 2 = 1 THEN s ELSE "")

\* A place whose name alone is longer than a description may be.
LongNamed ==
    [place_id |-> "p4", name |-> Repeat("Ginza ", DescriptionLimit \div 5),
     types |-> <<"cafe">>, vicinity |-> Some("Ginza"), rating |-> Some(40)]

\* editorial_summary.overview: missing, empty, short, of exactly
\* DescriptionLimit characters, of one more, and longer.
Overviews ==
    { None, Some(""), Some("Cozy cafe"),
      Some(Repeat("x", DescriptionLimit)),
      Some(Repeat("x", DescriptionLimit) \o "y"),
      Some(Repeat("ab", DescriptionLimit)) }

\* What getPlaceDetails may return: null, or a result with or without a
\* formatted address.
DetailValues ==
    {None} \cup { Some([formatted_address |-> address, overview |-> overview])
                   : address \in {None, Some("4-6-16 Ginza, Chuo City, Tokyo")},
                     overview \in Overviews }

\* convertToVenue(place), getPlaceDetails having returned `details`
ConvertToVenueCall ==
    /\ \E place \in {MitsukoshiGinza, CafeX, GinzaSix, LongNamed}, details \in DetailValues :
         LET made == convertToVenue(place, [threw |-> FALSE, details |-> details])
         IN  norm' = [NoCall EXCEPT !.fn = "convertToVenue",
                                    !.place = Some(place), !.details = details,
                                    !.threw = made.threw, !.out = made.venue]
    /\ UNCHANGED <<venues, upstream, run, replay, prevClean, prevCount, api>>

NormalizerNext ==
    \/ MapCategory
    \/ ExtractDistrict
    \/ ConvertToVenueCall

NormalizerSpec == Init /\ [][NormalizerNext]_vars

\* Positions of the tags of a sequence that are keys of the lookup table.
KnownAt(types) == {i \in 1..Len(types) : types[i] \in Range(CategoryKeys)}

\* The category the lookup table gives for one of its keys.
CategoryOf(tag) == CategoryValues[CHOOSE k \in 1..Len(CategoryKeys) : CategoryKeys[k] = tag]

(* C16: mapCategory returns the table's category of the tag at the least
   position of the sequence whose tag is a key of the table, and "Venue"
   when there is none; for [unknown_tag, cafe, restaurant] it returns
   "Cafe", although restaurant comes before cafe in the table. *)
C16_FirstTagInInputOrder ==
    norm.fn = "mapCategory"
    => LET types == norm.types
           known == KnownAt(types)
       IN  /\ known = {} => norm.out = Some("Venue")
           /\ known # {}
              => LET first == CHOOSE i \in known : \A j \in known : i <= j
                 IN  norm.out = Some(CategoryOf(types[first]))
           /\ types = <<"unknown_tag", "cafe", "restaurant">> => norm.out = Some("Cafe")
           /\ types = <<"restaurant", "cafe">> => norm.out = Some("Restaurant")
           /\ types = <<"lodging", "unknown_tag">> => norm.out = Some("Venue")

\* mapCategory has been called with [unknown_tag, cafe, restaurant].
C16_Witness ==
    /\ norm.fn = "mapCategory"
    /\ norm.types = <<"unknown_tag", "cafe", "restaurant">>
    /\ norm.out = Some("Cafe")

(* C17: mapCategory and extractDistrict raise no error and return a
   non-empty string, whatever they are called with. *)
C17_NormalizerTotal ==
    norm.fn \in {"mapCategory", "extractDistrict"}
    => /\ ~norm.threw
       /\ IsSome(norm.out)
       /\ Get(norm.out) # ""

\* The names extractDistrict looks for, in the order it looks for them.
ScanOrder == districts \o osakaDistricts

(* C18: extractDistrict scans the formatted address when there is a
   (non-empty) one and the rough location otherwise, and returns the name
   that comes first in the Tokyo list followed by the Osaka list among those
   the scanned string contains, "Central" when it contains none: an address
   with Namba and Chuo gives Chuo. *)
C18_DistrictScanOrder ==
    (norm.fn = "extractDistrict" /\ ~norm.threw)
    => LET scanned == IF norm.address \notin {None, Some("")}
                      THEN Get(norm.address) ELSE Get(norm.vicinity)
           found == {i \in 1..Len(ScanOrder) : Includes(scanned, ScanOrder[i])}
       IN  /\ found = {} => norm.out = Some("Central")
           /\ found # {}
              => norm.out = Some(ScanOrder[CHOOSE i \in found : \A j \in found : i <= j])
           /\ scanned = "1-2 Namba, Chuo Ward, Osaka" => norm.out = Some("Chuo")
           /\ scanned = "Chuo, Ginza, Tokyo" => norm.out = Some("Ginza")
           /\ scanned = "Namba, Osaka" => norm.out = Some("Namba")
           /\ scanned = "Umeda, Kita Ward" => norm.out = Some("Umeda")
           /\ scanned = "Kyoto Station" => norm.out = Some("Central")

\* extractDistrict has been called with a rough location in Shibuya and a
\* formatted address holding Namba, Chuo and Osaka.
C18_Witness ==
    /\ norm.fn = "extractDistrict"
    /\ norm.vicinity = Some("Shibuya")
    /\ norm.address = Some("1-2 Namba, Chuo Ward, Osaka")
    /\ norm.out = Some("Chuo")

\* The step threw inside the candidate's try: convertToVenue did, or a
\* statement of insertVenue.
CandidateThrew(r, rNext) ==
    \/ r.pc = "convert" /\ rNext # r /\ rNext.pc # "exists"
    \/ StorageRaised(r, rNext)

(* C19: when convertToVenue or insertVenue throws for a candidate, no row
   is added, the candidate is not counted and the run is not failed; the
   pipeline goes on with the next candidate of the same query when there is
   one, else with the next query of the area, else with the next area or the
   statistics, the area's count being what was counted before. *)
C19_CandidateFailureSkipped ==
    [][\A p \in Runners :
          LET r == run[p]
              rNext == run'[p]
          IN  CandidateThrew(r, rNext)
              => /\ venues' = venues
                 /\ rNext.results.success = None /\ rNext.results.error = None
                 /\ rNext.searched = r.searched
                 /\ IF r.ci < Len(r.places)
                    THEN /\ rNext.pc = "convert" /\ rNext.ci = r.ci + 1
                         /\ rNext.places = r.places
                         /\ rNext.qi = r.qi /\ rNext.area = r.area
                         /\ rNext.totalInserted = r.totalInserted
                    ELSE IF r.qi < Len(Queries(r.area))
                    THEN /\ rNext.pc = "search" /\ rNext.qi = r.qi + 1
                         /\ rNext.area = r.area
                         /\ rNext.totalInserted = r.totalInserted
                    ELSE /\ rNext.results[r.area] = r.totalInserted
                         /\ \/ rNext.pc = "stats"
                            \/ /\ rNext.pc = "search" /\ rNext.qi = 1
                               /\ r.area = "ginza" /\ rNext.area = "osaka"]_vars

\* In the first query of a run the first candidate was lost to a storage
\* error; the second has been stored and is the only one counted.
C19_Witness ==
    /\ r1.pc = "delay" /\ r1.storageRaised
    /\ Len(r1.searched) = 1 /\ r1.qi = 1 /\ r1.ci = 2
    /\ r1.totalInserted = 1
    /\ Count(venues) = prevCount + 1
    /\ BagIn(Get(r1.venue), venues)

\* The text convertToVenue makes the description of: the editorial summary
\* when the details have a non-empty one, else "{name} - {category}".
DescriptionSource(place, details) ==
    IF details # None /\ Get(details).overview \notin {None, Some("")}
    THEN Get(Get(details).overview)
    ELSE place.name \o " - " \o mapCategory(place.types)

(* C20: the description of a venue made by convertToVenue has at most 500
   characters and is the first 500 characters of the editorial summary when
   the details supply a non-empty one, of "{name} - {category}" otherwise. *)
C20_DescriptionAtMost500 ==
    (norm.fn = "convertToVenue" /\ ~norm.threw)
    => LET description == Get(norm.out).description
           source == DescriptionSource(Get(norm.place), norm.details)
       IN  /\ Len(description) <= 500
           /\ Len(description) = (IF Len(source) <= 500 THEN Len(source) ELSE 500)
           /\ description = SubSeq(source, 1, Len(description))

\* convertToVenue has cut an editorial summary of more than 500 characters.
C20_Witness ==
    /\ norm.fn = "convertToVenue" /\ ~norm.threw
    /\ norm.details # None
    /\ Len(DescriptionSource(Get(norm.place), norm.details)) > 500
    /\ Get(norm.details).overview # None
    /\ Len(Get(norm.out).description) = 500

(* ==================== properties of the pipeline, continued ============ *)

\* The place ids the text search returns.
PlaceIds == {place.place_id : place \in {MitsukoshiGinza, CafeX, GinzaSix}}

\* The text columns of a row.
TextColumns == {"name", "category", "district", "description", "map_url"}

(* C21 (as claimed): no column of a row of `venues` holds the place id of a
   candidate. *)
C21_PlaceIdNotStored ==
    \A row \in BagToSet(venues) : \A id \in PlaceIds : \A column \in TextColumns :
        ~Includes(row[column], id)

(* C21 (amended): a row written by the pipeline has the six columns name,
   category, district, description, map_url and rating; the place id of its
   candidate ends its map_url, "https://www.google.com/maps/place/?q=place_id:"
   followed by the id, and is in no other column of any row. *)
C21_PlaceIdOnlyInMapUrl ==
    [][/\ venues' # venues
          => \A row \in BagToSet(venues') :
                /\ DOMAIN row = TextColumns \cup {"rating"}
                /\ \A id \in PlaceIds : \A column \in TextColumns \ {"map_url"} :
                      ~Includes(row[column], id)
       /\ \A p \in Runners :
             (run[p].pc = "insert" /\ venues' # venues)
             => /\ BagIn(Get(run[p].venue), venues')
                /\ Get(run[p].venue).map_url
                       = "https://www.google.com/maps/place/?q=place_id:"
                         \o Place(run[p]).place_id]_vars

\* Cafe X has just been stored: its row carries its place id in map_url.
C21_Witness ==
    /\ r1.pc = "delay" /\ Place(r1) = CafeX
    /\ BagIn(Get(r1.venue), venues)
    /\ Count(venues) = prevCount + 1
    /\ Includes(Get(r1.venue).map_url, CafeX.place_id)

(* C22: the candidates of a query are the first 5 places of its search
   result, in the order returned; a place beyond the fifth is neither
   converted nor stored, and the count of an area is at most 5 times the
   number of its phrases. *)
C22_AtMostFivePerQuery ==
    [][\A p \in Runners :
          LET r == run[p]
              rNext == run'[p]
              found == ScriptedSearch(upstream, r.qi).results
          IN  /\ Len(rNext.places) <= 5 /\ rNext.ci <= 5
              /\ rNext.ci <= Len(rNext.places)
              /\ rNext.totalInserted <= 5 * rNext.qi
              /\ \A area \in {"ginza", "osaka"} :
                    rNext.results[area] <= 5 * Len(Queries(area))
              /\ (r.pc = "search" /\ rNext.pc = "convert" /\ upstream \in Scripts)
                 => /\ Len(rNext.places) = (IF Len(found) <= 5 THEN Len(found) ELSE 5)
                    /\ \A k \in 1..Len(rNext.places) : rNext.places[k] = found[k]
              /\ (upstream \in Scripts /\ upstream.search[1] = FoundMany)
                 => /\ \A row \in BagToSet(venues') : row.name # Itoya.name
                    /\ AtPlace(rNext) => Place(rNext) # Itoya]_vars

\* The search returned six places; the fifth has been stored as the last
\* candidate of the query.
C22_Witness ==
    /\ upstream \in Scripts /\ ScriptedSearch(upstream, 1) = FoundMany
    /\ r1.pc = "delay" /\ r1.qi = 1 /\ r1.ci = 5
    /\ Len(r1.places) = 5 /\ Place(r1) = FoundMany.results[5]
    /\ Len(FoundMany.results) = 6
    /\ BagIn(Get(r1.venue), venues)

(* C23: a step at a query makes its one Search call: the phrase is added
   to the phrases searched and the run never comes back to that query,
   failed or not; a candidate is entered once, from the search or from
   the candidate before it, and its conversion (with its one details call)
   is left for the lookup or for what comes next, never repeated; past the
   areas every phrase of the selected areas has been searched once. *)
C23_OneCallEach ==
    [][\A p \in Runners :
          LET r == run[p]
              rNext == run'[p]
          IN  (rNext # r /\ ~Resting(r))
              => /\ IF r.pc = "search"
                    THEN /\ rNext.searched = Append(r.searched, Queries(r.area)[r.qi])
                         /\ ~(rNext.pc = "search" /\ rNext.area = r.area /\ rNext.qi = r.qi)
                    ELSE rNext.searched = r.searched
                 /\ rNext.pc = "search"
                    => \/ rNext.area = r.area /\ rNext.qi = r.qi + 1
                       \/ rNext.area # r.area /\ rNext.qi = 1
                 /\ rNext.pc = "convert"
                    => \/ r.pc = "search" /\ rNext.ci = 1
                       \/ /\ AtPlace(r) /\ rNext.ci = r.ci + 1
                          /\ rNext.places = r.places
                          /\ rNext.qi = r.qi /\ rNext.area = r.area
                 /\ r.pc = "convert" => rNext.pc # "convert" \/ rNext.ci # r.ci
                 /\ PastAreas(rNext)
                    => /\ Len(rNext.searched) = Len(SelectedQueries(rNext.areas))
                       /\ \A i, j \in 1..Len(rNext.searched) :
                             rNext.searched[i] = rNext.searched[j] => i = j]_vars

\* A run over both areas has returned: two of its searches failed, and it
\* made as many searches as the areas have phrases.
C23_Witness ==
    /\ Returned(r1) /\ r1.failed >= 2
    /\ {"ginza", "osaka"} \subseteq Range(r1.areas)
    /\ Len(r1.searched) = Len(Queries("ginza")) + Len(Queries("osaka"))
    /\ r1.results.ginza + r1.results.osaka >= 1

(* C24: an insert attempt, whatever its outcome, is followed by the delay:
   the step that ends the lookup or the INSERT of a candidate leads to the
   INSERT or to the delay, not to the next upstream call. *)
C24_DelayAfterEveryAttempt ==
    [][\A p \in Runners :
          (run[p].pc \in {"exists", "insert"} /\ run'[p] # run[p])
          => run'[p].pc \in {"insert", "delay"}]_vars

\* The attempt of the candidate before has finished: by its delay, or by
\* an error thrown in its try.
AttemptFinished(r, rNext) == r.pc = "delay" \/ CandidateThrew(r, rNext)

(* C25: a run does one thing at a time, in order: a candidate is entered
   only from the search that found it or when the attempt of the candidate
   before has finished; a query is searched only after the search before it
   failed or found nothing, or the last of its candidates has finished; an
   area is left only at its last query; and only the INSERT step changes
   the table, by the one row of the run's current candidate. *)
C25_OneAtATime ==
    [][\A p \in Runners :
          LET r == run[p]
              rNext == run'[p]
          IN  (rNext # r /\ ~Resting(r))
              => /\ rNext.pc = "convert"
                    => \/ r.pc = "search"
                       \/ AttemptFinished(r, rNext) /\ r.ci < Len(r.places)
                 /\ (rNext.pc = "search" \/ rNext.area # r.area)
                    => \/ r.pc = "search"
                       \/ AttemptFinished(r, rNext) /\ r.ci = Len(r.places)
                 /\ rNext.area # r.area => r.qi = Len(Queries(r.area))
                 /\ rNext.pc = "stats" => r.area = (IF "osaka" \in Range(r.areas)
                                                    THEN "osaka" ELSE "ginza")
                 /\ venues' # venues
                    => /\ r.pc = "insert"
                       /\ venues' = venues (+) SetToBag({Get(r.venue)})]_vars

\* The second area has been entered, the last candidate of the first
\* area's last query having been stored and delayed for.
C25_Witness ==
    /\ r1.area = "osaka" /\ r1.pc = "search" /\ r1.qi = 1
    /\ Len(r1.searched) = Len(Queries("ginza"))
    /\ r1.results.ginza >= 3
    /\ Count(venues) > prevCount

\* A run is under way: seedDatabase has been called and has not returned.
Running(r) == r.pc \in {"search", "convert", "exists", "insert", "delay", "stats"}

(* C26: when every awaited call eventually returns or raises, a run that
   is under way eventually returns from seedDatabase, completed or failed,
   and its result is then sent to the caller. *)
C26_RunTerminates ==
    (Running(r1) \/ Returned(r1))
        ~> /\ Responded(r1)
           /\ r1.results.success \in {Some(TRUE), Some(FALSE)}
           /\ Get(r1.response).success = r1.results.success

\* A run over both areas, in which searches failed and a storage statement
\* raised, has returned.
C26_Witness ==
    /\ Returned(r1) /\ r1.failed >= 1 /\ r1.storageRaised
    /\ {"ginza", "osaka"} \subseteq Range(r1.areas)
    /\ r1.results.success \in {Some(TRUE), Some(FALSE)}
    /\ Len(r1.searched) = Len(SelectedQueries(r1.areas))

RECURSIVE SumOf(_)
\* The sum of the counts of a grouping.
SumOf(counts) ==
    IF DOMAIN counts = {} THEN 0
    ELSE LET group == CHOOSE g \in DOMAIN counts : TRUE
         IN  counts[group] + SumOf([g \in DOMAIN counts \ {group} |-> counts[g]])

(* C27: the statistics of a run are taken in the step after its last
   area, when every phrase of the selected areas has been searched; with
   runs one at a time their total is the number of rows of the table then
   and when the run returns, and is the sum of the counts by category and
   the sum of the counts by district. *)
C27_StatsSnapshot ==
    [][\A p \in Runners :
          LET r == run[p]
              rNext == run'[p]
          IN  /\ (rNext.results.stats # None /\ r.results.stats = None)
                 => /\ r.pc = "stats"
                    /\ r.searched = SelectedQueries(r.areas)
                    /\ Get(rNext.results.stats).total = Count(venues)
              /\ (Returned(rNext) /\ rNext.results.stats # None)
                 => LET stats == Get(rNext.results.stats)
                    IN  /\ stats.total = Count(venues')
                        /\ SumOf(stats.byCategory) = stats.total
                        /\ SumOf(stats.byDistrict) = stats.total
                        /\ DOMAIN stats.byCategory = {row.category : row \in BagToSet(venues')}
                        /\ DOMAIN stats.byDistrict = {row.district : row \in BagToSet(venues')}
              /\ (r.results.stats # None /\ ~Resting(r)) => rNext.results.stats = r.results.stats
          ]_vars

\* A completed run returns statistics over four rows, two of them in Ginza.
C27_Witness ==
    /\ Returned(r1) /\ r1.results.stats # None
    /\ Get(r1.results.stats).total = 4
    /\ Count(venues) = 4
    /\ Get(r1.results.stats).byDistrict["Ginza"] = 2
    /\ r1.results.ginza + r1.results.osaka >= 3

(* ======================= two runs at the same time ===================== *)

\* Two requests for Ginza, one per runner, each seeding once against the
\* scripted upstream that finds Mitsukoshi Ginza first; their steps interleave.
ConcurrentNext ==
    /\ \E p \in Runners :
           \/ /\ run[p].pc = "idle"
              /\ Post(p)
              /\ run'[p].areas = <<"ginza">>
              /\ upstream' \in Scripts /\ upstream'.search = <<FoundA, FoundB>>
           \/ Step(p)
    /\ UNCHANGED <<norm, api>>

ConcurrentSpec == Init /\ [][ConcurrentNext]_vars

\* The rows of the table that have the (name, district) of the key.
RowsOf(table, key) ==
    BagCardinality([row \in {x \in BagToSet(table) : Key(x) = key} |-> table[row]])

\* The runners whose request has started.
Started == {p \in Runners : run[p].pc # "idle"}

(* C28: with two runs interleaved, a second row of a (name, district) can
   only come from a runner whose INSERT follows the other runner's INSERT
   of the same pair, both having passed the lookup: a pair has at most as
   many rows as runs have started, and an INSERT that adds a second row is
   made while the other run has started too. *)
C28_DuplicateOnlyByRace ==
    [][/\ \A key \in Keys(venues') : RowsOf(venues', key) <= Cardinality(Started')
       /\ \A p \in Runners :
             (run[p].pc = "insert" /\ run'[p].pc = "delay" /\ venues' # venues
              /\ Key(Get(run[p].venue)) \in Keys(venues))
             => /\ Started = Runners
                /\ RowsOf(venues', Key(Get(run[p].venue))) = 2]_vars

\* Two rows share one (name, district): both runs passed the lookup before
\* either inserted.
C28_Witness ==
    /\ \E key \in Keys(venues) : RowsOf(venues, key) = 2
    /\ \A p \in Runners : run[p].pc = "delay" /\ BagIn(Get(run[p].venue), venues)
    /\ Key(Get(run["r1"].venue)) = Key(Get(run["r2"].venue))

(* ----------------------------- /api/venues ---------------------------- *)

\* The bodies of manual adds: a cafe the searches also find in Shibuya, the
\* same name in another district, and a body without description.
ManualCafe ==
    [name |-> Some("Cafe X"), category |-> Some("Coffee"), district |-> Some("Shibuya"),
     description |-> Some("Third-wave coffee."), map_url |-> None, rating |-> None]
ManualCafeGinza ==
    [name |-> Some("Cafe X"), category |-> Some("Coffee"), district |-> Some("Ginza"),
     description |-> Some("The Ginza branch."),
     map_url |-> Some("https://example.com/cafe-x-ginza"), rating |-> Some(41)]
NoDescription ==
    [name |-> Some("Ginza Six"), category |-> Some("Shopping Mall"), district |-> Some("Ginza"),
     description |-> None, map_url |-> None, rating |-> None]
Bodies == {ManualCafe, ManualCafeGinza, NoDescription}

\* !field of a body: the field is absent or the empty string
Falsy(field) == ~IsSome(field) \/ Get(field) = ""

\* encodeURIComponent, for names of letters, digits and spaces
RECURSIVE encodeURIComponent(_)
encodeURIComponent(s) ==
    IF Len(s) = 0 THEN ""
    ELSE (IF SubSeq(s, 1, 1) = " " THEN "%20" ELSE SubSeq(s, 1, 1))
         \o encodeURIComponent(SubSeq(s, 2, Len(s)))

\* The row POST /api/venues binds: map_url || search URL, rating !== undefined ? rating : 0
ManualVenue(body) ==
    [name |-> Get(body.name), category |-> Get(body.category),
     district |-> Get(body.district), description |-> Get(body.description),
     map_url |-> IF Falsy(body.map_url)
                 THEN "https://www.google.com/maps/search/?api=1&query="
                      \o encodeURIComponent(Get(body.name) \o " " \o Get(body.district))
                 ELSE Get(body.map_url),
     rating |-> IF IsSome(body.rating) THEN Get(body.rating) ELSE 0]

\* Faulty variant of ExistingVenue: the lookup is by name alone.
ExistingVenue_ByName(table, name, district) ==
    \E row \in BagToSet(table) : row.name = name

\* POST /api/venues: SELECT id FROM venues WHERE name = ? AND district = ?
ExistingVenue(table, name, district) ==
    \E row \in BagToSet(table) : row.name = name /\ row.district = district

\* Where a statement of POST /api/venues may raise.
AddRaises == {"none", "select", "insert", "reselect"}

\* POST /api/venues, made when the client's seeding request, if any, is over.
AddVenue(p) ==
    /\ Resting(run[p])
    /\ \E body \in Bodies, db \in BOOLEAN :
       \E raisesAt \in (IF db THEN AddRaises ELSE {"none"}) :
         LET missing == \/ Falsy(body.name) \/ Falsy(body.category)
                        \/ Falsy(body.district) \/ Falsy(body.description)
             found   == ExistingVenue(venues, Get(body.name), Get(body.district))
             status  == IF missing THEN 400
                        ELSE IF ~db \/ raisesAt = "select" THEN 500
                        ELSE IF found THEN 409
                        ELSE IF raisesAt \in {"insert", "reselect"} THEN 500
                        ELSE 200
             stored  == /\ ~missing /\ db /\ raisesAt \in {"none", "reselect"}
                        /\ ~found
         IN  /\ venues' = IF stored THEN Inserted(venues, ManualVenue(body)) ELSE venues
             /\ api' = [NoRequest EXCEPT !.op = "POST", !.body = Some(body), !.db = db,
                                         !.raisesAt = raisesAt, !.status = Some(status)]
    /\ run' = [run EXCEPT ![p] = IdleRun]
    /\ replay' = FALSE
    /\ prevClean' = FALSE
    /\ prevCount' = 0
    /\ UNCHANGED upstream

AdminSecret == "s3cret"

\* env.ADMIN_API_KEY: not configured, or a binding whose get() returns the
\* key or rejects
AdminKeys ==
    {None, Some([key |-> AdminSecret, raises |-> FALSE]),
           Some([key |-> AdminSecret, raises |-> TRUE])}

\* The Authorization header of a request, if any.
AuthHeaders ==
    {None, Some("Bearer " \o AdminSecret), Some("Bearer guess"), Some(AdminSecret),
     Some("bearer " \o AdminSecret)}

\* String.prototype.startsWith
startsWith(s, prefix) ==
    Len(s) >= Len(prefix) /\ SubSeq(s, 1, Len(prefix)) = prefix

\* Faulty variant of isAuthenticated: with no admin key configured every
\* bearer is accepted.
isAuthenticated_OpenWhenUnset(authHeader, adminKey) ==
    IF Falsy(authHeader) \/ ~startsWith(Get(authHeader), "Bearer ") THEN FALSE
    ELSE LET providedKey == SubSeq(Get(authHeader), 8, Len(Get(authHeader)))
         IN  IF IsSome(adminKey)
             THEN IF Get(adminKey).raises THEN FALSE ELSE providedKey = Get(adminKey).key
             ELSE TRUE

isAuthenticated(authHeader, adminKey) ==
    IF Falsy(authHeader) \/ ~startsWith(Get(authHeader), "Bearer ") THEN FALSE
    ELSE LET providedKey == SubSeq(Get(authHeader), 8, Len(Get(authHeader)))
         IN  IF IsSome(adminKey)
             THEN IF Get(adminKey).raises THEN FALSE ELSE providedKey = Get(adminKey).key
             ELSE FALSE

\* The row of an id that no row of the table has.
NoSuchRow ==
    [name |-> "", category |-> "", district |-> "", description |-> "",
     map_url |-> "", rating |-> 0]

\* The `id` of a request: absent, the id of a row, or an id of no row.
Ids(table) == {None} \cup {Some(row) : row \in BagToSet(table) \cup {NoSuchRow}}

\* DELETE FROM venues WHERE id = ?
Deleted(table, row) ==
    IF BagIn(row, table) THEN table (-) SetToBag({row}) ELSE table

\* DELETE /api/venues, made when the client's seeding request, if any, is over.
DeleteVenue(p) ==
    /\ Resting(run[p])
    /\ \E authorization \in AuthHeaders, adminKey \in AdminKeys, id \in Ids(venues),
          db \in BOOLEAN :
       \E raises \in (IF db THEN BOOLEAN ELSE {FALSE}) :
         LET status == IF ~db THEN 500
                       ELSE IF ~isAuthenticated(authorization, adminKey) THEN 401
                       ELSE IF ~IsSome(id) THEN 400
                       ELSE IF raises THEN 500
                       ELSE 200
         IN  /\ venues' = IF status = 200 THEN Deleted(venues, Get(id)) ELSE venues
             /\ api' = [NoRequest EXCEPT !.op = "DELETE", !.authorization = authorization,
                                         !.adminKey = adminKey, !.id = id, !.db = db,
                                         !.raisesAt = IF raises THEN "delete" ELSE "none",
                                         !.status = Some(status)]
    /\ run' = [run EXCEPT ![p] = IdleRun]
    /\ replay' = FALSE
    /\ prevClean' = FALSE
    /\ prevCount' = 0
    /\ UNCHANGED upstream

\* Manual adds, deletes and seeding runs, one at a time in any order; the
\* seeding runs are against the scripted upstream that finds Cafe X and
\* Mitsukoshi Ginza.
VenuesNext ==
    /\ \E p \in SequentialRunners :
           \/ AllResting /\ AddVenue(p)
           \/ AllResting /\ DeleteVenue(p)
           \/ /\ AllResting
              /\ Post(p)
              /\ ~replay'
              /\ upstream' \in Scripts /\ upstream'.search = <<FoundB, FoundA>>
              /\ api' = NoRequest
           \/ Step(p) /\ UNCHANGED api
    /\ UNCHANGED norm

VenuesSpec == Init /\ [][VenuesNext]_vars

\* The request answered last was a well-formed manual add whose statements
\* all ran.
Added(request) ==
    /\ request.op = "POST"
    /\ request.db
    /\ request.raisesAt = "none"
    /\ ~\E field \in {"name", "category", "district", "description"} :
           Falsy(Get(request.body)[field])

\* C29: a well-formed manual add against working storage answers 409 and
\* leaves the table as it was when a row of its (name, district) exists, and
\* otherwise adds exactly one row, its own; and whatever manual adds, deletes
\* and seeding runs are made one at a time, no (name, district) has two rows.
C29_ManualAddKeepsKeyUnique ==
    [][/\ Added(api') =>
            LET body == Get(api'.body)
                key  == <<Get(body.name), Get(body.district)>>
            IN  IF key \in Keys(venues)
                THEN api'.status = Some(409) /\ venues' = venues
                ELSE /\ api'.status = Some(200)
                     /\ venues' = venues (+) SetToBag({ManualVenue(body)})
                     /\ Count(venues') = Count(venues) + 1
                     /\ Key(ManualVenue(body)) = key
       /\ \A key \in Keys(venues') : RowsOf(venues', key) = 1]_vars

\* A manual add of Cafe X in Shibuya is refused after a seeding run stored it.
C29_Witness ==
    /\ Added(api)
    /\ Get(api.body) = ManualCafe
    /\ api.status = Some(409)
    /\ \E row \in BagToSet(venues) :
           Key(row) = <<"Cafe X", "Shibuya">> /\ row.category = "Cafe"

\* The request carries `Authorization: Bearer <key>` with the configured
\* admin key, and fetching that key succeeds.
Authorized(request) ==
    /\ IsSome(request.authorization)
    /\ IsSome(request.adminKey)
    /\ ~Get(request.adminKey).raises
    /\ Get(request.authorization) = "Bearer " \o Get(request.adminKey).key

\* C30: a delete removes a row (one row) only when the request is authorized;
\* a delete that is not authorized (no admin key configured, header absent or
\* malformed, another key, fetching the admin key fails) is answered 401 by a
\* handler that has its database binding, and leaves the table as it was.
C30_DeleteOnlyWithAdminKey ==
    [][api'.op = "DELETE" =>
         /\ venues' # venues => /\ Authorized(api')
                                /\ Count(venues') = Count(venues) - 1
                                /\ api'.status = Some(200)
         /\ ~Authorized(api') => /\ venues' = venues
                                 /\ api'.db => api'.status = Some(401)]_vars

\* An authorized delete has removed the row a manual add had stored.
C30_Witness ==
    /\ api.op = "DELETE"
    /\ Authorized(api)
    /\ api.status = Some(200)
    /\ api.id = Some(ManualVenue(ManualCafe))
    /\ ~BagIn(ManualVenue(ManualCafe), venues)

====
